---- MODULE Spec2Model ----
(***************************************************************************)
(* A model of the accesslog HTTP middleware (package accesslog).           *)
(*                                                                         *)
(* src/log.go holds two implementations of the package:                    *)
(*   - lines 1-382:   responseWriter, convertTimeFormat, line, flatten,    *)
(*                    FormatWith (the scanner that cuts the format into    *)
(*                    "directives" and "betweens");                        *)
(*   - lines 384-705: logging, convertTimeFormat, Format (the scanner that *)
(*                    builds a fmt.Sprintf format string and an argument   *)
(*                    index per directive letter).                         *)
(* Both are modelled.  Definitions of the second implementation whose Go   *)
(* name collides with the first carry the suffix V2.                       *)
(*                                                                         *)
(* A Go string is a sequence of one-character strings: "%s" is             *)
(* <<"%", "s">>.  All text of the model is ASCII, so bytes, runes and      *)
(* characters coincide.                                                    *)
(***************************************************************************)
EXTENDS Integers, Sequences, FiniteSets, TLC

(***************************************************************************)
(* Characters and numbers                                                  *)
(***************************************************************************)
Lower == <<"a", "b", "c", "d", "e", "f", "g", "h", "i", "j", "k", "l", "m",
           "n", "o", "p", "q", "r", "s", "t", "u", "v", "w", "x", "y", "z">>

Upper == <<"A", "B", "C", "D", "E", "F", "G", "H", "I", "J", "K", "L", "M",
           "N", "O", "P", "Q", "R", "S", "T", "U", "V", "W", "X", "Y", "Z">>

Digits == <<"0", "1", "2", "3", "4", "5", "6", "7", "8", "9">>

\* The position of c in the table tbl, 0 when it is not there.
IndexOf(c, tbl) ==
    IF \E k \in 1..Len(tbl) : tbl[k] = c
    THEN CHOOSE k \in 1..Len(tbl) : tbl[k] = c
    ELSE 0

IsLower(r) == IndexOf(r, Lower) > 0
IsUpper(r) == IndexOf(r, Upper) > 0
IsDigit(r) == IndexOf(r, Digits) > 0

\* unicode.IsLetter, on ASCII
IsLetter(r) == IsLower(r) \/ IsUpper(r)

ToUpperRune(r) == IF IsLower(r) THEN Upper[IndexOf(r, Lower)] ELSE r
ToLowerRune(r) == IF IsUpper(r) THEN Lower[IndexOf(r, Upper)] ELSE r

\* strings.ToUpper
ToUpper(s) == [k \in 1..Len(s) |-> ToUpperRune(s[k])]

\* s[i:] of Go with a 1-based first index: the characters from position i on.
From(s, i) == SubSeq(s, i, Len(s))

\* Whether pat occurs in s at position i.
HasAt(s, i, pat) ==
    /\ i + Len(pat) - 1 <= Len(s)
    /\ SubSeq(s, i, i + Len(pat) - 1) = pat

RECURSIVE Join(_)
\* strings.Join(parts, ""), bytes.Buffer accumulation
Join(parts) ==
    IF parts = <<>> THEN <<>> ELSE Head(parts) \o Join(Tail(parts))

RECURSIVE Repeat(_, _)
Repeat(c, n) == IF n <= 0 THEN <<>> ELSE <<c>> \o Repeat(c, n - 1)

RECURSIVE ItoaNat(_)
ItoaNat(n) ==
    IF n < 10 THEN <<Digits[n + 1]>>
    ELSE ItoaNat(n \div 10) \o <<Digits[(n % 10) + 1]>>

\* strconv.Itoa: the decimal text of an integer
Itoa(n) == IF n < 0 THEN <<"-">> \o ItoaNat(0 - n) ELSE ItoaNat(n)

RECURSIVE BinaryNat(_)
BinaryNat(n) ==
    IF n < 2 THEN <<Digits[n + 1]>>
    ELSE BinaryNat(n \div 2) \o <<Digits[(n % 2) + 1]>>

\* The base-2 text of an integer (fmt's %b)
Binary(n) == IF n < 0 THEN <<"-">> \o BinaryNat(0 - n) ELSE BinaryNat(n)

RECURSIVE ParseNat(_, _)
\* The number written by the digits of s, after the digits read so far (acc)
ParseNat(s, acc) ==
    IF s = <<>> THEN acc
    ELSE ParseNat(Tail(s), acc * 10 + (IndexOf(Head(s), Digits) - 1))

\* The decimal text of n >= 0 padded with c on the left to width w
PadLeft(n, w, c) ==
    LET d == ItoaNat(n) IN Repeat(c, w - Len(d)) \o d

(***************************************************************************)
(* Instants: time.Time                                                     *)
(* An instant is its civil date and clock reading in its own location, the *)
(* location's offset east of UTC in minutes and the location's             *)
(* abbreviation.                                                           *)
(***************************************************************************)
IsLeap(y) == (y % 4 = 0 /\ y % 100 # 0) \/ y % 400 = 0

DaysInYear(y) == IF IsLeap(y) THEN 366 ELSE 365

DaysBefore == <<0, 31, 59, 90, 120, 151, 181, 212, 243, 273, 304, 334>>

\* time.Time.YearDay: 1..366
YearDay(t) ==
    DaysBefore[t.month] + t.day
        + (IF t.month > 2 /\ IsLeap(t.year) THEN 1 ELSE 0)

\* Days from 0001-01-01 (a Monday) to the instant's date.
AbsDays(t) ==
    LET y == t.year - 1
    IN  365 * y + (y \div 4) - (y \div 100) + (y \div 400) + YearDay(t) - 1

\* time.Time.Weekday: Sunday = 0 ... Saturday = 6
Weekday(t) == (AbsDays(t) + 1) % 7

\* time.Time.Unix, as its sign and the decimal digits of its absolute value
\* (the seconds since 1970-01-01T00:00:00Z; a 64-bit value in the program).
\* It is days * 86400 + seconds, computed in parts that stay small.
UnixParts(t) ==
    LET s0 == t.hour * 3600 + t.min * 60 + t.sec - t.offset * 60
        d  == (AbsDays(t) - 719162) + (s0 \div 86400)
        s  == s0 % 86400
        a  == IF d >= 0 THEN d ELSE 0 - d - 1
        b  == IF d >= 0 THEN s ELSE 86400 - s
        n1 == a * 864
        r0 == (n1 % 1000) * 100 + b
        hi == (n1 \div 1000) + (r0 \div 100000)
        lo == r0 % 100000
    IN  [neg  |-> d < 0,
         text |-> IF hi = 0 THEN ItoaNat(lo)
                  ELSE ItoaNat(hi) \o PadLeft(lo, 5, "0")]

\* time.Time.ISOWeek: the year and week of the Thursday of the instant's week
ISOWeek(t) ==
    LET wd  == Weekday(t)
        d   == IF wd = 0 THEN 0 - 3 ELSE 4 - wd
        yd  == YearDay(t) + d
        yr  == IF yd < 1 THEN t.year - 1
               ELSE IF yd > DaysInYear(t.year) THEN t.year + 1
               ELSE t.year
        ydn == IF yd < 1 THEN yd + DaysInYear(t.year - 1)
               ELSE IF yd > DaysInYear(t.year) THEN yd - DaysInYear(t.year)
               ELSE yd
    IN  [year |-> yr, week |-> ((ydn - 1) \div 7) + 1]

MonthNames ==
    <<<<"J", "a", "n", "u", "a", "r", "y">>,
      <<"F", "e", "b", "r", "u", "a", "r", "y">>,
      <<"M", "a", "r", "c", "h">>,
      <<"A", "p", "r", "i", "l">>,
      <<"M", "a", "y">>,
      <<"J", "u", "n", "e">>,
      <<"J", "u", "l", "y">>,
      <<"A", "u", "g", "u", "s", "t">>,
      <<"S", "e", "p", "t", "e", "m", "b", "e", "r">>,
      <<"O", "c", "t", "o", "b", "e", "r">>,
      <<"N", "o", "v", "e", "m", "b", "e", "r">>,
      <<"D", "e", "c", "e", "m", "b", "e", "r">>>>

DayNames ==
    <<<<"S", "u", "n", "d", "a", "y">>,
      <<"M", "o", "n", "d", "a", "y">>,
      <<"T", "u", "e", "s", "d", "a", "y">>,
      <<"W", "e", "d", "n", "e", "s", "d", "a", "y">>,
      <<"T", "h", "u", "r", "s", "d", "a", "y">>,
      <<"F", "r", "i", "d", "a", "y">>,
      <<"S", "a", "t", "u", "r", "d", "a", "y">>>>

(***************************************************************************)
(* time.Time.Format.  The layout is scanned for the reference-time chunks  *)
(* of the time package (nextStdChunk); every other character is copied.    *)
(* Modelled chunks: January Jan Monday Mon MST 01..06 002 15 1 2006 2 _2   *)
(* __2 3 4 5 PM pm -0700 -07:00 -07.  The layouts of the model hold none   *)
(* of the remaining chunk openers ('Z', '.', ',').                         *)
(***************************************************************************)
StartsWithLowerCase(s, i) == i <= Len(s) /\ IsLower(s[i])

\* The chunk that starts at position i of the layout: its name ("" for a
\* character that is copied) and its length.
StdChunk(layout, i) ==
    LET c  == layout[i]
        n1 == IF i + 1 <= Len(layout) THEN layout[i + 1] ELSE ""
        lit == [std |-> "", len |-> 1]
    IN
    CASE c = "J" ->
           IF HasAt(layout, i, <<"J", "a", "n", "u", "a", "r", "y">>)
           THEN [std |-> "stdLongMonth", len |-> 7]
           ELSE IF HasAt(layout, i, <<"J", "a", "n">>)
                   /\ ~StartsWithLowerCase(layout, i + 3)
           THEN [std |-> "stdMonth", len |-> 3]
           ELSE lit
      [] c = "M" ->
           IF HasAt(layout, i, <<"M", "o", "n", "d", "a", "y">>)
           THEN [std |-> "stdLongWeekDay", len |-> 6]
           ELSE IF HasAt(layout, i, <<"M", "o", "n">>)
                   /\ ~StartsWithLowerCase(layout, i + 3)
           THEN [std |-> "stdWeekDay", len |-> 3]
           ELSE IF HasAt(layout, i, <<"M", "S", "T">>)
           THEN [std |-> "stdTZ", len |-> 3]
           ELSE lit
      [] c = "0" ->
           IF n1 \in {"1", "2", "3", "4", "5", "6"}
           THEN [std |-> "std0" \o n1, len |-> 2]
           ELSE IF HasAt(layout, i, <<"0", "0", "2">>)
           THEN [std |-> "stdZeroYearDay", len |-> 3]
           ELSE lit
      [] c = "1" ->
           IF n1 = "5" THEN [std |-> "stdHour", len |-> 2]
           ELSE [std |-> "stdNumMonth", len |-> 1]
      [] c = "2" ->
           IF HasAt(layout, i, <<"2", "0", "0", "6">>)
           THEN [std |-> "stdLongYear", len |-> 4]
           ELSE [std |-> "stdDay", len |-> 1]
      [] c = "_" ->
           IF n1 = "2"
           THEN IF HasAt(layout, i + 1, <<"2", "0", "0", "6">>)
                THEN lit
                ELSE [std |-> "stdUnderDay", len |-> 2]
           ELSE IF HasAt(layout, i, <<"_", "_", "2">>)
           THEN [std |-> "stdUnderYearDay", len |-> 3]
           ELSE lit
      [] c = "3" -> [std |-> "stdHour12", len |-> 1]
      [] c = "4" -> [std |-> "stdMinute", len |-> 1]
      [] c = "5" -> [std |-> "stdSecond", len |-> 1]
      [] c = "P" ->
           IF n1 = "M" THEN [std |-> "stdPM", len |-> 2] ELSE lit
      [] c = "p" ->
           IF n1 = "m" THEN [std |-> "stdpm", len |-> 2] ELSE lit
      [] c = "-" ->
           IF HasAt(layout, i, <<"-", "0", "7", "0", "0", "0", "0">>)
           THEN [std |-> "stdNumSecondsTz", len |-> 7]
           ELSE IF HasAt(layout, i,
                         <<"-", "0", "7", ":", "0", "0", ":", "0", "0">>)
           THEN [std |-> "stdNumColonSecondsTZ", len |-> 9]
           ELSE IF HasAt(layout, i, <<"-", "0", "7", "0", "0">>)
           THEN [std |-> "stdNumTZ", len |-> 5]
           ELSE IF HasAt(layout, i, <<"-", "0", "7", ":", "0", "0">>)
           THEN [std |-> "stdNumColonTZ", len |-> 6]
           ELSE IF HasAt(layout, i, <<"-", "0", "7">>)
           THEN [std |-> "stdNumShortTZ", len |-> 3]
           ELSE lit
      [] OTHER -> lit

\* The 12-hour clock reading of an hour: 0 and 12 read 12.
Hour12(h) == IF h % 12 = 0 THEN 12 ELSE h % 12

\* The sign and the hours and minutes of a zone offset
ZoneSign(t) == IF t.offset < 0 THEN <<"-">> ELSE <<"+">>
ZoneAbs(t) == IF t.offset < 0 THEN 0 - t.offset ELSE t.offset

\* What a chunk appends for the instant t.
StdValue(t, std) ==
    CASE std = "stdLongMonth"    -> MonthNames[t.month]
      [] std = "stdMonth"        -> SubSeq(MonthNames[t.month], 1, 3)
      [] std = "stdNumMonth"     -> ItoaNat(t.month)
      [] std = "std01"           -> PadLeft(t.month, 2, "0")
      [] std = "stdLongWeekDay"  -> DayNames[Weekday(t) + 1]
      [] std = "stdWeekDay"      -> SubSeq(DayNames[Weekday(t) + 1], 1, 3)
      [] std = "stdDay"          -> ItoaNat(t.day)
      [] std = "stdUnderDay"     -> PadLeft(t.day, 2, " ")
      [] std = "std02"           -> PadLeft(t.day, 2, "0")
      [] std = "stdZeroYearDay"  -> PadLeft(YearDay(t), 3, "0")
      [] std = "stdUnderYearDay" -> PadLeft(YearDay(t), 3, " ")
      [] std = "stdHour"         -> PadLeft(t.hour, 2, "0")
      [] std = "stdHour12"       -> ItoaNat(Hour12(t.hour))
      [] std = "std03"           -> PadLeft(Hour12(t.hour), 2, "0")
      [] std = "stdMinute"       -> ItoaNat(t.min)
      [] std = "std04"           -> PadLeft(t.min, 2, "0")
      [] std = "stdSecond"       -> ItoaNat(t.sec)
      [] std = "std05"           -> PadLeft(t.sec, 2, "0")
      [] std = "stdLongYear"     -> PadLeft(t.year, 4, "0")
      [] std = "std06"           -> PadLeft(t.year % 100, 2, "0")
      [] std = "stdPM"           ->
           IF t.hour >= 12 THEN <<"P", "M">> ELSE <<"A", "M">>
      [] std = "stdpm"           ->
           IF t.hour >= 12 THEN <<"p", "m">> ELSE <<"a", "m">>
      [] std = "stdTZ"           -> t.zone
      [] std = "stdNumTZ"        ->
           ZoneSign(t) \o PadLeft(ZoneAbs(t) \div 60, 2, "0")
                       \o PadLeft(ZoneAbs(t) % 60, 2, "0")
      [] std = "stdNumColonTZ"   ->
           ZoneSign(t) \o PadLeft(ZoneAbs(t) \div 60, 2, "0") \o <<":">>
                       \o PadLeft(ZoneAbs(t) % 60, 2, "0")
      [] std = "stdNumShortTZ"   ->
           ZoneSign(t) \o PadLeft(ZoneAbs(t) \div 60, 2, "0")
      [] std = "stdNumSecondsTz" ->
           ZoneSign(t) \o PadLeft(ZoneAbs(t) \div 60, 2, "0")
                       \o PadLeft(ZoneAbs(t) % 60, 2, "0") \o <<"0", "0">>
      [] std = "stdNumColonSecondsTZ" ->
           ZoneSign(t) \o PadLeft(ZoneAbs(t) \div 60, 2, "0") \o <<":">>
                       \o PadLeft(ZoneAbs(t) % 60, 2, "0")
                       \o <<":", "0", "0">>

RECURSIVE TimeFormatFrom(_, _, _)
TimeFormatFrom(t, layout, i) ==
    IF i > Len(layout) THEN <<>>
    ELSE LET ch == StdChunk(layout, i)
         IN  (IF ch.std = "" THEN <<layout[i]>> ELSE StdValue(t, ch.std))
                 \o TimeFormatFrom(t, layout, i + ch.len)

\* t.Format(layout)
TimeFormat(t, layout) == TimeFormatFrom(t, layout, 1)

(***************************************************************************)
(* fmt.Sprintf.  An argument is its dynamic type, its sign and its text:   *)
(* the digits of a number's absolute value, or the characters of a string. *)
(* Modelled: literal text, %%, the flag 0, a width, the verbs s d v b T on *)
(* strings, integers and nil, fmt's bad-verb, missing-argument, no-verb    *)
(* and extra-argument texts.  The formats of the model hold none of the    *)
(* flags # + - and space, no precision, no argument index, and none of the *)
(* verbs c o O q U x X.                                                    *)
(***************************************************************************)
IntArg(n) ==
    [type |-> "int", neg |-> n < 0,
     text |-> ItoaNat(IF n < 0 THEN 0 - n ELSE n)]

Int64Arg(n) ==
    [type |-> "int64", neg |-> n < 0,
     text |-> ItoaNat(IF n < 0 THEN 0 - n ELSE n)]

WeekdayArg(n) == [type |-> "time.Weekday", neg |-> FALSE, text |-> ItoaNat(n)]

StringArg(s) == [type |-> "string", neg |-> FALSE, text |-> s]

NilArg == [type |-> "nil", neg |-> FALSE, text |-> <<>>]

IsNumberArg(a) == a.type \in {"int", "int64", "time.Weekday"}

\* reflect.TypeOf(arg).String()
TypeName(a) ==
    CASE a.type = "int"          -> <<"i", "n", "t">>
      [] a.type = "int64"        -> <<"i", "n", "t", "6", "4">>
      [] a.type = "time.Weekday" ->
           <<"t", "i", "m", "e", ".", "W", "e", "e", "k", "d", "a", "y">>
      [] a.type = "string"       -> <<"s", "t", "r", "i", "n", "g">>

NilAngleString == <<"<", "n", "i", "l", ">">>

\* The decimal text of a number argument
Decimal(a) == (IF a.neg THEN <<"-">> ELSE <<>>) \o a.text

\* time.Weekday.String()
WeekdayString(a) ==
    LET n == ParseNat(a.text, 0)
    IN  IF n <= 6 THEN DayNames[n + 1]
        ELSE <<"%", "!", "W", "e", "e", "k", "d", "a", "y", "(">>
                 \o a.text \o <<")">>

\* fmtInteger in base 10: with a width, the flag 0 pads with zeros after the
\* sign, no flag pads with spaces on the left.
PadInteger(a, zero, wid) ==
    IF zero
    THEN (IF a.neg THEN <<"-">> ELSE <<>>)
             \o Repeat("0", wid - Len(a.text) - (IF a.neg THEN 1 ELSE 0))
             \o a.text
    ELSE Repeat(" ", wid - Len(Decimal(a))) \o Decimal(a)

\* padString: a string is padded on the left to the width
PadString(s, zero, wid) ==
    Repeat(IF zero THEN "0" ELSE " ", wid - Len(s)) \o s

\* printArg(arg, 'v') as badVerb and the extra-argument report call it: with
\* erroring set (a bad verb) a Stringer's String method is not called.
ValueText(a, erroring) ==
    IF a.type = "time.Weekday" /\ ~erroring THEN WeekdayString(a)
    ELSE IF IsNumberArg(a) THEN Decimal(a)
    ELSE a.text

\* pp.badVerb
BadVerb(a, verb) ==
    <<"%", "!", verb, "(">>
        \o (IF a.type = "nil" THEN NilAngleString
            ELSE TypeName(a) \o <<"=">> \o ValueText(a, TRUE))
        \o <<")">>

\* pp.printArg
PrintArg(a, verb, zero, wid) ==
    IF verb = "T"
    THEN PadString(IF a.type = "nil" THEN NilAngleString ELSE TypeName(a),
                   zero, wid)
    ELSE
    CASE a.type = "nil" ->
           IF verb = "v" THEN PadString(NilAngleString, zero, wid)
           ELSE BadVerb(a, verb)
      [] a.type = "string" ->
           IF verb \in {"v", "s"} THEN PadString(a.text, zero, wid)
           ELSE BadVerb(a, verb)
      [] a.type = "time.Weekday" /\ verb \in {"v", "s"} ->
           PadString(WeekdayString(a), zero, wid)
      [] OTHER ->
           IF verb \in {"v", "d"} THEN PadInteger(a, zero, wid)
           ELSE IF verb = "b"
           THEN LET n == ParseNat(a.text, 0)
                IN  PadString(Binary(IF a.neg THEN 0 - n ELSE n), zero, wid)
           ELSE BadVerb(a, verb)

RECURSIVE ExtraArgs(_, _)
\* The arguments left over, as the extra-argument report lists them
ExtraArgs(args, k) ==
    IF k > Len(args) THEN <<>>
    ELSE (IF args[k].type = "nil" THEN NilAngleString
          ELSE TypeName(args[k]) \o <<"=">> \o ValueText(args[k], FALSE))
         \o (IF k < Len(args) THEN <<",", " ">> ELSE <<>>)
         \o ExtraArgs(args, k + 1)

\* The end of doPrintf: arguments no verb consumed are reported.
SprintfEnd(args, argNum) ==
    IF argNum < Len(args)
    THEN <<"%", "!", "(", "E", "X", "T", "R", "A", " ">>
             \o ExtraArgs(args, argNum + 1) \o <<")">>
    ELSE <<>>

RECURSIVE SkipZeros(_, _)
\* The position after the run of 0 flags that starts at j
SkipZeros(format, j) ==
    IF j <= Len(format) /\ format[j] = "0" THEN SkipZeros(format, j + 1)
    ELSE j

RECURSIVE SkipDigits(_, _)
\* The position after the run of digits that starts at j (parsenum)
SkipDigits(format, j) ==
    IF j <= Len(format) /\ IsDigit(format[j]) THEN SkipDigits(format, j + 1)
    ELSE j

RECURSIVE SprintfFrom(_, _, _, _)
\* doPrintf from position i of the format, argNum arguments consumed
SprintfFrom(format, i, args, argNum) ==
    IF i > Len(format) THEN SprintfEnd(args, argNum)
    ELSE IF format[i] # "%"
    THEN <<format[i]>> \o SprintfFrom(format, i + 1, args, argNum)
    ELSE LET f    == SkipZeros(format, i + 1)
             zero == f > i + 1
             v    == SkipDigits(format, f)
             wid  == ParseNat(SubSeq(format, f, v - 1), 0)
         IN  IF v > Len(format)
             THEN <<"%", "!", "(", "N", "O", "V", "E", "R", "B", ")">>
                      \o SprintfEnd(args, argNum)
             ELSE IF format[v] = "%"
             THEN <<"%">> \o SprintfFrom(format, v + 1, args, argNum)
             ELSE IF argNum >= Len(args)
             THEN <<"%", "!", format[v], "(", "M", "I", "S", "S", "I", "N",
                    "G", ")">>
                      \o SprintfFrom(format, v + 1, args, argNum)
             ELSE PrintArg(args[argNum + 1], format[v], zero, wid)
                      \o SprintfFrom(format, v + 1, args, argNum + 1)

\* fmt.Sprintf(format, args...)
Sprintf(format, args) == SprintfFrom(format, 1, args, 0)

(***************************************************************************)
(* The strftime table (timeFmtMap, and the map m of the second             *)
(* implementation: the same keys; the entries differ only in the           *)
(* placeholder of the computed directives).                                *)
(***************************************************************************)
\* Directives that map to a fragment of a Go layout
TimeFmtDirect ==
    {"a", "A", "b", "B", "C", "d", "D", "e", "F", "h", "H", "I", "k", "l",
     "m", "M", "n", "p", "P", "r", "R", "S", "t", "T", "y", "Y", "z", "Z",
     "%"}

\* Directives computed from the instant ("require calculated time")
TimeFmtComputed == {"G", "g", "j", "s", "u", "V", "w"}

\* "Unsupported directives"
TimeFmtUnsupported == {"c", "E", "O", "U", "W", "x", "X", "+"}

\* The layout fragment of a direct directive.  The value of 'k' starts with
\* a bullet, a non-ASCII rune, written here as the one element "BULLET".
TimeFmtFragment(r) ==
    CASE r = "a" -> <<"M", "o", "n">>
      [] r = "A" -> <<"M", "o", "n", "d", "a", "y">>
      [] r = "b" -> <<"J", "a", "n">>
      [] r = "B" -> <<"J", "a", "n", "u", "a", "r", "y">>
      [] r = "C" -> <<"0", "6">>
      [] r = "d" -> <<"0", "2">>
      [] r = "D" -> <<"0", "1", "/", "0", "2", "/", "0", "6">>
      [] r = "e" -> <<"_", "2">>
      [] r = "F" -> <<"2", "0", "0", "6", "-", "0", "1", "-", "0", "2">>
      [] r = "h" -> <<"J", "a", "n">>
      [] r = "H" -> <<"1", "5">>
      [] r = "I" -> <<"3">>
      [] r = "l" -> <<"_", "3">>
      [] r = "m" -> <<"0", "1">>
      [] r = "M" -> <<"0", "4">>
      [] r = "n" -> <<"\n">>
      [] r = "p" -> <<"P", "M">>
      [] r = "P" -> <<"p", "m">>
      [] r = "r" -> <<"0", "3", ":", "0", "4", ":", "0", "5", " ", "P", "M">>
      [] r = "R" -> <<"1", "5", ":", "0", "4">>
      [] r = "S" -> <<"0", "5">>
      [] r = "t" -> <<"\t">>
      [] r = "T" -> <<"1", "5", ":", "0", "4", ":", "0", "5">>
      [] r = "y" -> <<"0", "6">>
      [] r = "Y" -> <<"2", "0", "0", "6">>
      [] r = "z" -> <<"-", "7", "0", "0">>
      [] r = "Z" -> <<"M", "S", "T">>
      [] r = "%" -> <<"%", "%">>
      [] r = "k" -> <<"BULLET", "1", "5">>

\* timeFmtMap[r] of the first implementation; <<>> stands for "no entry"
timeFmtMap(r) ==
    IF r \in TimeFmtDirect THEN TimeFmtFragment(r)
    ELSE IF r \in TimeFmtComputed THEN <<"%", "v">>
    ELSE IF r \in TimeFmtUnsupported THEN <<"?">>
    ELSE <<>>

\* m[r] of the second implementation; <<>> stands for "no entry"
timeFmtMapV2(r) ==
    IF r \in TimeFmtDirect THEN TimeFmtFragment(r)
    ELSE IF r = "g" THEN <<"%", "s">>
    ELSE IF r \in TimeFmtComputed THEN <<"%", "d">>
    ELSE IF r \in TimeFmtUnsupported THEN <<"?">>
    ELSE <<>>

\* The result of a call that panics.  No text equals it: its one element is
\* not a character.
Fault == <<"panic">>

(***************************************************************************)
(* convertTimeFormat of the first implementation (src/log.go:105-165)      *)
(***************************************************************************)
\* A variant that appends the ISO weekday (Sunday as 7) for 'w' as for 'u'
calcTimeValueSundaySeven(now, r) ==
    CASE r = "G" -> Int64Arg(ISOWeek(now).year)
      [] r = "g" -> LET y == ISOWeek(now).year
                    IN  Int64Arg(y - (y \div 100) * 100)
      [] r = "j" -> Int64Arg(YearDay(now))
      [] r = "s" -> [type |-> "int64", neg |-> UnixParts(now).neg,
                     text |-> UnixParts(now).text]
      [] r = "V" -> Int64Arg(ISOWeek(now).week)
      [] r \in {"u", "w"} ->
             Int64Arg(IF Weekday(now) = 0 THEN 7 ELSE Weekday(now))

\* The value appended to calcTime for a computed directive
calcTimeValue(now, r) ==
    CASE r = "G" -> Int64Arg(ISOWeek(now).year)
      [] r = "g" -> LET y == ISOWeek(now).year
                    IN  Int64Arg(y - (y \div 100) * 100)
      [] r = "j" -> Int64Arg(YearDay(now))
      [] r = "s" -> [type |-> "int64", neg |-> UnixParts(now).neg,
                     text |-> UnixParts(now).text]
      [] r = "u" -> Int64Arg(IF Weekday(now) = 0 THEN 7 ELSE Weekday(now))
      [] r = "V" -> Int64Arg(ISOWeek(now).week)
      [] r = "w" -> Int64Arg(Weekday(now))

\* One turn of the loop over the runes of the format
convertTimeFormatStep(now, st, r) ==
    IF ~st.isDirective /\ r = "%"
    THEN [st EXCEPT !.isDirective = TRUE]
    ELSE IF ~st.isDirective
    THEN [st EXCEPT !.buf = @ \o <<r>>]
    ELSE IF timeFmtMap(r) # <<>>
    THEN IF timeFmtMap(r) = <<"%", "v">>
         THEN IF r = "g"
              THEN [st EXCEPT !.calcTime = Append(@, calcTimeValue(now, r)),
                              !.buf = @ \o <<"%", "0", "2", "d">>,
                              !.isDirective = FALSE]
              ELSE [st EXCEPT !.calcTime = Append(@, calcTimeValue(now, r)),
                              !.buf = @ \o timeFmtMap(r),
                              !.isDirective = FALSE]
         ELSE [st EXCEPT !.buf = @ \o timeFmtMap(r),
                         !.isDirective = FALSE]
    ELSE [st EXCEPT !.buf = @ \o <<"(", "%", r>>
                        \o <<" ", "i", "s", " ", "i", "n", "v", "a", "l",
                             "i", "d", ")">>]

\* for _, r := range format: st.k runes are done
RECURSIVE convertTimeFormatLoop(_, _, _)
convertTimeFormatLoop(now, format, st) ==
    IF st.k >= Len(format) THEN st
    ELSE convertTimeFormatLoop(now, format,
             [convertTimeFormatStep(now, st, format[st.k + 1])
                 EXCEPT !.k = @ + 1])

convertTimeFormat(now, format) ==
    LET st == convertTimeFormatLoop(now, format,
                  [isDirective |-> FALSE, calcTime |-> <<>>, buf |-> <<>>,
                   k |-> 0])
        s  == TimeFormat(now, st.buf)
    IN  IF Len(st.calcTime) > 0 THEN Sprintf(s, st.calcTime) ELSE s

(***************************************************************************)
(* convertTimeFormat of the second implementation (src/log.go:457-554)     *)
(***************************************************************************)
\* Whether computing the argument of a computed directive panics:
\* strconv.Itoa(y)[2:] is out of range when y has one digit.
argPanicsV2(t, r) == r = "g" /\ Len(Itoa(ISOWeek(t).year)) < 2

\* The value appended to i for a computed directive
argValueV2(t, r) ==
    CASE r = "G" -> IntArg(ISOWeek(t).year)
      [] r = "g" -> StringArg(From(Itoa(ISOWeek(t).year), 3))
      [] r = "j" -> IntArg(YearDay(t))
      [] r = "s" -> [type |-> "int64", neg |-> UnixParts(t).neg,
                     text |-> UnixParts(t).text]
      [] r = "u" -> WeekdayArg(IF Weekday(t) = 0 THEN 7 ELSE Weekday(t))
      [] r = "V" -> IntArg(ISOWeek(t).week)
      [] r = "w" -> WeekdayArg(Weekday(t))

\* One turn of the loop over the runes of s
convertTimeFormatStepV2(t, st, r) ==
    IF st.fault THEN st
    ELSE IF r = "%"
    THEN [st EXCEPT !.x = TRUE]
    ELSE IF st.x
    THEN IF timeFmtMapV2(r) # <<>>
         THEN IF timeFmtMapV2(r) \in {<<"%", "s">>, <<"%", "d">>}
              THEN IF argPanicsV2(t, r)
                   THEN [st EXCEPT !.x = FALSE, !.fault = TRUE]
                   ELSE [st EXCEPT !.x = FALSE,
                                   !.i = Append(@, argValueV2(t, r)),
                                   !.buf = @ \o timeFmtMapV2(r)]
              ELSE [st EXCEPT !.x = FALSE, !.buf = @ \o timeFmtMapV2(r)]
         ELSE [st EXCEPT !.x = FALSE, !.buf = @ \o <<"%", r>>]
    ELSE [st EXCEPT !.buf = @ \o <<r>>]

\* for _, r := range s: st.k runes are done
RECURSIVE convertTimeFormatLoopV2(_, _, _)
convertTimeFormatLoopV2(t, s, st) ==
    IF st.k >= Len(s) THEN st
    ELSE convertTimeFormatLoopV2(t, s,
             [convertTimeFormatStepV2(t, st, s[st.k + 1])
                 EXCEPT !.k = @ + 1])

convertTimeFormatV2(t, s) ==
    LET st == convertTimeFormatLoopV2(t, s,
                  [x |-> FALSE, i |-> <<>>, buf |-> <<>>, fault |-> FALSE,
                   k |-> 0])
        f  == TimeFormat(t, st.buf)
    IN  IF st.fault THEN Fault
        ELSE IF Len(st.i) > 0 THEN Sprintf(f, st.i) ELSE f

(***************************************************************************)
(* Requests: *http.Request.  A request is its Method, its URL.Path, its    *)
(* Proto, its URL.Host and its Header, a sequence of <<key, value>> pairs  *)
(* whose keys are in canonical form, as net/http stores them.  The URL of  *)
(* a request a server hands to a handler is never nil.                     *)
(***************************************************************************)
\* validHeaderFieldByte of net/textproto
IsTokenChar(c) ==
    \/ IsLetter(c)
    \/ IsDigit(c)
    \/ c \in {"!", "#", "$", "%", "&", "'", "*", "+", "-", ".", "^", "_",
              "BACKTICK", "|", "~"}

\* textproto.CanonicalMIMEHeaderKey: a key with a character that is no token
\* character is left alone; otherwise the first letter and every letter
\* after a '-' are made upper case and the others lower case.
CanonicalMIMEHeaderKey(key) ==
    IF \E k \in 1..Len(key) : ~IsTokenChar(key[k]) THEN key
    ELSE [k \in 1..Len(key) |->
            IF k = 1 \/ key[k - 1] = "-" THEN ToUpperRune(key[k])
            ELSE ToLowerRune(key[k])]

\* http.Header.Get: the first value stored under the canonical key, or ""
HeaderGet(header, key) ==
    LET ck == CanonicalMIMEHeaderKey(key)
    IN  IF \E k \in 1..Len(header) : header[k][1] = ck
        THEN header[CHOOSE k \in 1..Len(header) :
                        /\ header[k][1] = ck
                        /\ \A j \in 1..(k - 1) : header[j][1] # ck][2]
        ELSE <<>>

\* The position of the first c in s, 0 when s holds none
FirstIndex(s, c) ==
    IF \E k \in 1..Len(s) : s[k] = c
    THEN CHOOSE k \in 1..Len(s) : s[k] = c /\ \A j \in 1..(k - 1) : s[j] # c
    ELSE 0

Base64Alphabet ==
    <<"A", "B", "C", "D", "E", "F", "G", "H", "I", "J", "K", "L", "M", "N",
      "O", "P", "Q", "R", "S", "T", "U", "V", "W", "X", "Y", "Z", "a", "b",
      "c", "d", "e", "f", "g", "h", "i", "j", "k", "l", "m", "n", "o", "p",
      "q", "r", "s", "t", "u", "v", "w", "x", "y", "z", "0", "1", "2", "3",
      "4", "5", "6", "7", "8", "9", "+", "/">>

\* The printable ASCII characters, from code 32 (space) to code 126.  The
\* grave accent (code 96) is written as the one element "BACKTICK".
Ascii ==
    <<" ", "!", "\"", "#", "$", "%", "&", "'", "(", ")", "*", "+", ",",
      "-", ".", "/", "0", "1", "2", "3", "4", "5", "6", "7", "8", "9", ":",
      ";", "<", "=", ">", "?", "@", "A", "B", "C", "D", "E", "F", "G", "H",
      "I", "J", "K", "L", "M", "N", "O", "P", "Q", "R", "S", "T", "U", "V",
      "W", "X", "Y", "Z", "[", "\\", "]", "^", "_", "BACKTICK", "a", "b", "c",
      "d", "e", "f", "g", "h", "i", "j", "k", "l", "m", "n", "o", "p", "q",
      "r", "s", "t", "u", "v", "w", "x", "y", "z", "{", "|", "}", "~">>

\* The character of a byte; a byte outside printable ASCII is written as the
\* one element "NONASCII".
ByteChar(b) == IF b >= 32 /\ b <= 126 THEN Ascii[b - 31] ELSE "NONASCII"

\* The 6-bit value of a base64 character
Base64Value(c) == IndexOf(c, Base64Alphabet) - 1

\* Whether base64.StdEncoding.DecodeString accepts s: groups of four
\* characters of the alphabet, the last group padded with one or two '='.
Base64Valid(s) ==
    /\ Len(s) % 4 = 0
    /\ \A k \in 1..Len(s) :
          \/ IndexOf(s[k], Base64Alphabet) > 0
          \/ /\ s[k] = "="
             /\ k >= Len(s) - 1
             /\ (k = Len(s) - 1 => s[Len(s)] = "=")

\* The bytes of one group of four characters
Base64Group(g) ==
    LET pad == IF g[3] = "=" THEN 2 ELSE IF g[4] = "=" THEN 1 ELSE 0
        v1  == Base64Value(g[1])
        v2  == Base64Value(g[2])
        v3  == IF pad = 2 THEN 0 ELSE Base64Value(g[3])
        v4  == IF pad >= 1 THEN 0 ELSE Base64Value(g[4])
        b1  == v1 * 4 + (v2 \div 16)
        b2  == (v2 % 16) * 16 + (v3 \div 4)
        b3  == (v3 % 4) * 64 + v4
    IN  IF pad = 2 THEN <<ByteChar(b1)>>
        ELSE IF pad = 1 THEN <<ByteChar(b1), ByteChar(b2)>>
        ELSE <<ByteChar(b1), ByteChar(b2), ByteChar(b3)>>

RECURSIVE Base64Decode(_)
\* The text base64.StdEncoding.DecodeString returns for an accepted s
Base64Decode(s) ==
    IF s = <<>> THEN <<>>
    ELSE Base64Group(SubSeq(s, 1, 4)) \o Base64Decode(From(s, 5))

\* The user of the Authorization header (the body of line.username and of
\* case 'u' of the second implementation's logFunc): "-" unless the header
\* has a space, the text after the first space is valid base64 and the
\* decoded text has a colon; then the text before the first colon.
BasicUser(r) ==
    LET a  == HeaderGet(r.Header,
                  <<"A", "u", "t", "h", "o", "r", "i", "z", "a", "t", "i",
                    "o", "n">>)
        sp == FirstIndex(a, " ")
        b  == Base64Decode(From(a, sp + 1))
        co == FirstIndex(b, ":")
    IN  IF sp = 0 THEN <<"-">>
        ELSE IF ~Base64Valid(From(a, sp + 1)) THEN <<"-">>
        ELSE IF co = 0 THEN <<"-">>
        ELSE SubSeq(b, 1, co - 1)

\* Variant: the request line without the protocol
requestLineWithoutProto(r) == ToUpper(r.Method) \o <<" ">> \o r.Path

\* strings.ToUpper(r.Method) + " " + r.URL.Path + " " + r.Proto
RequestLineText(r) ==
    ToUpper(r.Method) \o <<" ">> \o r.Path \o <<" ">> \o r.Proto

Loopback == <<"1", "2", "7", ".", "0", ".", "0", ".", "1">>

\* The layout of %t without a key: "[02/01/2006:03:04:05 -0700]"
DefaultTimeLayout ==
    <<"[", "0", "2", "/", "0", "1", "/", "2", "0", "0", "6", ":", "0", "3",
      ":", "0", "4", ":", "0", "5", " ", "-", "0", "7", "0", "0", "]">>

\* time.Time.IsZero: January 1, year 1, 00:00:00 UTC
IsZero(t) ==
    /\ t.year = 1 /\ t.month = 1 /\ t.day = 1
    /\ t.hour = 0 /\ t.min = 0 /\ t.sec = 0 /\ t.offset = 0

\* line.withTime, and the choice of t in case 't' of the second
\* implementation: the instant of the options when it is set, the wall
\* clock otherwise.
withTime(o, clock) == IF ~IsZero(o.Time) THEN o.Time ELSE clock

(***************************************************************************)
(* First implementation: FormatWith and flatten (src/log.go:167-382)       *)
(***************************************************************************)
\* directives = append(directives, aBuf.String()); betweens = append(...);
\* aBuf.Reset(); bBuf.Reset()
FlushBuffers(st) ==
    [st EXCEPT !.directives = Append(@, st.aBuf),
               !.betweens = Append(@, st.bBuf),
               !.aBuf = <<>>,
               !.bBuf = <<>>]

\* cBuf.WriteRune(r): cBuf is aBuf or bBuf
WriteRune(st, r) ==
    IF st.cBuf = "aBuf" THEN [st EXCEPT !.aBuf = @ \o <<r>>]
    ELSE [st EXCEPT !.bBuf = @ \o <<r>>]

\* One turn of the scan of FormatWith: the rune r at byte offset i (0-based)
FormatWithStep(st, r, i) ==
    CASE r = "%" ->
           IF st.isDirective THEN WriteRune(st, r)
           ELSE LET s1 == [st EXCEPT !.isDirective = TRUE]
                    s2 == IF i # 0 THEN FlushBuffers(s1) ELSE s1
                IN  WriteRune([s2 EXCEPT !.cBuf = "aBuf"], r)
      [] r = "{" -> WriteRune([st EXCEPT !.isEnclosure = TRUE], r)
      [] r = "}" -> WriteRune([st EXCEPT !.isEnclosure = FALSE], r)
      [] r = ">" -> WriteRune(st, r)
      [] OTHER ->
           IF st.isDirective /\ ~st.isEnclosure /\ ~IsLetter(r)
           THEN LET s1 == [st EXCEPT !.isDirective = FALSE,
                                     !.isEnclosure = FALSE]
                    s2 == IF i # 0 THEN FlushBuffers(s1) ELSE s1
                IN  WriteRune([s2 EXCEPT !.cBuf = "bBuf"], r)
           ELSE WriteRune(st, r)

\* for i, r := range format: st.i is the byte offset of the next rune
RECURSIVE FormatWithLoop(_, _)
FormatWithLoop(format, st) ==
    IF st.i >= Len(format) THEN st
    ELSE FormatWithLoop(format,
             [FormatWithStep(st, format[st.i + 1], st.i) EXCEPT !.i = @ + 1])

\* The compiled program of FormatWith: the slices directives and betweens
FormatWith(format) ==
    LET st == FormatWithLoop(format,
                  [directives |-> <<>>, betweens |-> <<>>,
                   aBuf |-> <<>>, bBuf |-> <<>>, cBuf |-> "bBuf",
                   isDirective |-> FALSE, isEnclosure |-> FALSE, i |-> 0])
        fin == FlushBuffers(st)
    IN  [directives |-> fin.directives, betweens |-> fin.betweens]

\* The methods of line.  Each returns the line with its cache field filled;
\* the text written is the cache field.
remoteHostname(ln) ==
    IF Len(ln.h) = 0
    THEN [ln EXCEPT !.h = IF Len(ln.request.Host) = 0 THEN Loopback
                          ELSE ln.request.Host]
    ELSE ln

username(ln) ==
    IF Len(ln.u) = 0 THEN [ln EXCEPT !.u = BasicUser(ln.request)] ELSE ln

timeFormatted(ln, format) ==
    IF Len(ln.t) = 0 THEN [ln EXCEPT !.t = TimeFormat(ln.time, format)]
    ELSE ln

requestLine(ln) ==
    IF Len(ln.r) = 0 THEN [ln EXCEPT !.r = RequestLineText(ln.request)]
    ELSE ln

lineStatus(ln) ==
    IF Len(ln.s) = 0 THEN [ln EXCEPT !.s = Itoa(ln.writer.status)] ELSE ln

bytesWritten(ln) ==
    IF Len(ln.b) = 0 THEN [ln EXCEPT !.b = Itoa(ln.writer.byteCount)]
    ELSE ln

\* timeElapsed computes only when D is already set, which it never is: D
\* stays "".
timeElapsed(ln) == ln

\* What the default case of flatten's switch writes for the directive s
flattenDefault(ln, s) ==
    IF Len(s) > 4 /\ SubSeq(s, 1, 2) = <<"%", "{">> /\ s[Len(s) - 1] = "}"
    THEN LET label == SubSeq(s, 3, Len(s) - 2)
         IN  CASE s[Len(s)] = "i" -> HeaderGet(ln.request.Header, label)
               [] s[Len(s)] = "t" -> convertTimeFormat(ln.time, label)
               [] OTHER -> <<>>
    ELSE <<>>

\* One turn of flatten's loop: the directive s = a[i] and the between b[i].
\* The state is the line and the buffer.
flattenStep(st, s, bi) ==
    CASE s = <<>> -> [st EXCEPT !.buf = @ \o bi]
      [] s = <<"%", "h">> ->
           LET ln == remoteHostname(st.ln)
           IN  [ln |-> ln, buf |-> st.buf \o ln.h]
      [] s = <<"%", "l">> -> [st EXCEPT !.buf = @ \o <<"-">>]
      [] s = <<"%", "u">> ->
           LET ln == username(st.ln)
           IN  [ln |-> ln, buf |-> st.buf \o ln.u]
      [] s = <<"%", "t">> ->
           LET ln == timeFormatted(st.ln, DefaultTimeLayout)
           IN  [ln |-> ln, buf |-> st.buf \o ln.t]
      [] s = <<"%", "r">> ->
           LET ln == requestLine(st.ln)
           IN  [ln |-> ln, buf |-> st.buf \o ln.r]
      [] s \in {<<"%", "s">>, <<"%", ">", "s">>} ->
           LET ln == lineStatus(st.ln)
           IN  [ln |-> ln, buf |-> st.buf \o ln.s]
      [] s = <<"%", "b">> ->
           LET ln == bytesWritten(st.ln)
           IN  [ln |-> ln, buf |-> st.buf \o ln.b]
      [] s = <<"%", "D">> ->
           LET ln == timeElapsed(st.ln)
           IN  [ln |-> ln, buf |-> st.buf \o ln.D]
      [] OTHER -> [st EXCEPT !.buf = @ \o flattenDefault(st.ln, s)]

\* for i, s := range a: st.i directives are done
RECURSIVE flattenLoop(_, _, _)
flattenLoop(a, b, st) ==
    IF st.i >= Len(a) THEN st
    ELSE LET s1 == flattenStep(st, a[st.i + 1], b[st.i + 1])
         IN  flattenLoop(a, b,
                 [ln |-> s1.ln, buf |-> s1.buf, i |-> st.i + 1])

\* flatten(o, a, b)(w, r): the line of the request r and the capture w,
\* rendered when the wall clock reads clock
flatten(o, a, b, w, r, clock) ==
    LET ln == [time |-> withTime(o, clock), request |-> r, writer |-> w,
               h |-> <<>>, u |-> <<>>, t |-> <<>>, r |-> <<>>, s |-> <<>>,
               b |-> <<>>, D |-> <<>>]
    IN  flattenLoop(a, b, [ln |-> ln, buf |-> <<>>, i |-> 0]).buf

(***************************************************************************)
(* Second implementation: Format and its logFunc (src/log.go:556-705)      *)
(***************************************************************************)
\* The directive letters formatVals may have as keys
FormatValsKeys == {"h", "l", "u", "r", "i", "t", "b", "s"}

\* if buf.Len() > 0 { formatStr = append(formatStr, buf.String());
\* buf.Reset() }
FlushLiteral(st) ==
    IF Len(st.buf) > 0
    THEN [st EXCEPT !.formatStr = Append(@, st.buf), !.buf = <<>>]
    ELSE st

\* formatStr = append(formatStr, verb); formatVals[r] = append(formatVals[r],
\* fmtDirectiveIdx)
AddDirective(st, r, verb) ==
    [st EXCEPT !.formatStr = Append(@, verb),
               !.formatVals[r] = Append(@, st.fmtDirectiveIdx)]

\* fmtDirectiveIdx++; isFmtDirective = false
EndDirective(st) ==
    [st EXCEPT !.fmtDirectiveIdx = @ + 1, !.isFmtDirective = FALSE]

\* One turn of the scan of Format
FormatStep(st, r) ==
    IF ~st.isHeader /\ ~st.isFmtDirective /\ r = "%"
    THEN FlushLiteral([st EXCEPT !.isFmtDirective = TRUE])
    ELSE IF st.isFmtDirective
    THEN CASE r = ">" -> st
           [] r = "{" ->
                [FlushLiteral([st EXCEPT !.isHeader = TRUE,
                                         !.headerKey = <<>>])
                    EXCEPT !.isFmtDirective = FALSE]
           [] r = "%" ->
                EndDirective(
                    [st EXCEPT !.formatStr = Append(@, <<"%", "%">>),
                               !.fmtDirectiveIdx = @ - 1])
           [] r \in {"i", "t"} ->
                LET s1 == IF Len(st.headerKey) > 0
                          THEN [st EXCEPT !.headerVals =
                                   (st.fmtDirectiveIdx :> st.headerKey) @@ @]
                          ELSE st
                IN  EndDirective(AddDirective(s1, r, <<"%", "s">>))
           [] r \in {"h", "l", "u", "r"} ->
                EndDirective(AddDirective(st, r, <<"%", "s">>))
           [] r \in {"b", "s"} ->
                EndDirective(AddDirective(st, r, <<"%", "d">>))
           [] OTHER -> EndDirective(st)
    ELSE IF r = "}"
    THEN IF Len(st.buf) > 0
         THEN [st EXCEPT !.isHeader = FALSE, !.headerKey = st.buf,
                         !.isFmtDirective = TRUE, !.buf = <<>>]
         ELSE [st EXCEPT !.isHeader = FALSE]
    ELSE [st EXCEPT !.buf = @ \o <<r>>]

\* for _, r := range format: st.k runes are done
RECURSIVE FormatLoop(_, _)
FormatLoop(format, st) ==
    IF st.k >= Len(format) THEN st
    ELSE FormatLoop(format,
             [FormatStep(st, format[st.k + 1]) EXCEPT !.k = @ + 1])

\* The compiled program of Format: logStr, formatVals, headerVals and
\* fmtDirectiveIdx, which logFunc closes over
Format(format) ==
    LET st == FlushLiteral(FormatLoop(format,
                  [formatStr |-> <<>>,
                   formatVals |-> [k \in FormatValsKeys |-> <<>>],
                   headerVals |-> <<>>,
                   headerKey |-> <<>>,
                   isFmtDirective |-> FALSE, isHeader |-> FALSE,
                   fmtDirectiveIdx |-> 0,
                   buf |-> <<>>, k |-> 0]))
    IN  [logStr |-> Join(st.formatStr),
         formatStr |-> st.formatStr,
         formatVals |-> st.formatVals,
         headerVals |-> st.headerVals,
         fmtDirectiveIdx |-> st.fmtDirectiveIdx]

\* The value logFunc stores in logVals[i] for the directive letter k
logValue(prog, k, i, o, w, r, clock) ==
    CASE k = "h" ->
           StringArg(IF Len(r.Host) > 0 THEN r.Host ELSE Loopback)
      [] k = "l" -> StringArg(<<"-">>)
      [] k = "u" -> StringArg(BasicUser(r))
      [] k = "t" ->
           IF i \in DOMAIN prog.headerVals
           THEN StringArg(convertTimeFormatV2(withTime(o, clock),
                                              prog.headerVals[i]))
           ELSE StringArg(TimeFormat(withTime(o, clock), DefaultTimeLayout))
      [] k = "r" -> StringArg(RequestLineText(r))
      [] k = "s" -> IntArg(w.status)
      [] k = "b" -> IntArg(w.wLen)
      [] k = "i" ->
           StringArg(HeaderGet(r.Header,
                               IF i \in DOMAIN prog.headerVals
                               THEN prog.headerVals[i] ELSE <<>>))

\* logVals after the loop over formatVals: slot i (0-based) holds the value
\* of the letter whose index list has i, and nil when no list has it.
logVals(prog, o, w, r, clock) ==
    [n \in 1..prog.fmtDirectiveIdx |->
        IF \E k \in FormatValsKeys :
              \E j \in 1..Len(prog.formatVals[k]) :
                  prog.formatVals[k][j] = n - 1
        THEN LET k == CHOOSE k \in FormatValsKeys :
                          \E j \in 1..Len(prog.formatVals[k]) :
                              prog.formatVals[k][j] = n - 1
             IN  logValue(prog, k, n - 1, o, w, r, clock)
        ELSE NilArg]

\* logFunc(w, r) of Format: fmt.Sprintf(logStr, logVals...), or the panic of
\* convertTimeFormat
logFunc(prog, o, w, r, clock) ==
    LET vals == logVals(prog, o, w, r, clock)
    IN  IF \E n \in 1..Len(vals) : vals[n].text = Fault THEN Fault
        ELSE Sprintf(prog.logStr, vals)

(***************************************************************************)
(* The inputs: formats, requests, instants                                 *)
(***************************************************************************)
\* The handler makes at most MaxCalls calls on the capture, and a payload
\* has at most MaxWriteLen bytes.
MaxCalls == 3

MaxWriteLen == 2

\* A format of the render specification has at most MaxFrags fragments.
MaxFrags == 3

\* http.StatusOK
StatusOK == 200

\* The codes a handler sets.  net/http rejects the code 0.
Codes == {200, 404}

\* The decimal text of a code, written out
CodeText ==
    (0 :> <<"0">>) @@ (200 :> <<"2", "0", "0">>) @@ (404 :> <<"4", "0", "4">>)

\* The payloads of Write
Payloads == {Repeat("a", n) : n \in 0..MaxWriteLen}

ApacheCommonLogFormat ==
    <<"%", "h", " ", "%", "l", " ", "%", "u", " ", "%", "t", " ", "\"", "%",
      "r", "\"", " ", "%", ">", "s", " ", "%", "b">>

ApacheCombinedLogFormat ==
    <<"%", "h", " ", "%", "l", " ", "%", "u", " ", "%", "t", " ", "\"", "%",
      "r", "\"", " ", "%", ">", "s", " ", "%", "b", " ", "\"", "%", "{", "R",
      "e", "f", "e", "r", "e", "r", "}", "i", "\"", " ", "\"", "%", "{", "U",
      "s", "e", "r", "-", "a", "g", "e", "n", "t", "}", "i", "\"">>

\* The instant of the tests, "Feb 3, 2013 at 7:54pm (PST)": time.Parse does
\* not know the abbreviation and keeps it with the offset 0.  It is also
\* what the wall clock reads.
TestTime ==
    [year |-> 2013, month |-> 2, day |-> 3, hour |-> 19, min |-> 54,
     sec |-> 0, offset |-> 0, zone |-> <<"P", "S", "T">>]

\* An instant of the year 5, whose ISO week-year has one digit
EarlyTime ==
    [year |-> 5, month |-> 1, day |-> 1, hour |-> 0, min |-> 0, sec |-> 7,
     offset |-> 0, zone |-> <<"U", "T", "C">>]

\* The zero time.Time: an opt whose Time was never set
ZeroTime ==
    [year |-> 1, month |-> 1, day |-> 1, hour |-> 0, min |-> 0, sec |-> 0,
     offset |-> 0, zone |-> <<"U", "T", "C">>]

Clock == TestTime

\* http.NewRequest("GET", "/testing", nil) of the tests
TestRequest ==
    [Method |-> <<"G", "E", "T">>,
     Path |-> <<"/", "t", "e", "s", "t", "i", "n", "g">>,
     Proto |-> <<"H", "T", "T", "P", "/", "1", ".", "1">>,
     Host |-> <<>>, Header |-> <<>>]

\* req.SetBasicAuth("Frank", "<none>")
FrankRequest ==
    [TestRequest EXCEPT !.Header =
        << << <<"A", "u", "t", "h", "o", "r", "i", "z", "a", "t", "i", "o",
                "n">>,
              <<"B", "a", "s", "i", "c", " ", "R", "n", "J", "h", "b", "m",
                "s", "6", "P", "G", "5", "v", "b", "m", "U", "+">> >> >>]

RefererText ==
    <<"h", "t", "t", "p", ":", "/", "/", "l", "o", "c", "a", "l", "h", "o",
      "s", "t", "/", "t", "e", "s", "t">>

UserAgentText == <<"G", "o", " ", "t", "e", "s", "t", "i", "n", "g">>

\* req.Header.Set("Referer", ...); req.Header.Set("User-Agent", ...)
CombinedRequest ==
    [TestRequest EXCEPT !.Header =
        << << <<"R", "e", "f", "e", "r", "e", "r">>, RefererText >>,
           << <<"U", "s", "e", "r", "-", "A", "g", "e", "n", "t">>,
              UserAgentText >> >>]

Requests == {FrankRequest, CombinedRequest}

\* The fragments the formats of the render specification are made of: the
\* status and size directives, the escaped percent, a directive with an
\* unknown letter, a literal, a keyed time directive with a computed token,
\* a header that no request has, a lone percent and an open enclosure.
Fragments ==
    { <<"%", "s">>, <<"%", ">", "s">>, <<"%", "b">>, <<"%", "%">>,
      <<"%", "W">>, <<"/">>, <<"%", "{", "%", "g", "}", "t">>,
      <<"%", "{", "X", "}", "i">>, <<"%">>, <<"%", "{">> }

RECURSIVE FragSeqs(_)
FragSeqs(n) ==
    IF n = 0 THEN {<<>>}
    ELSE LET shorter == FragSeqs(n - 1)
         IN  shorter \cup {Append(fs, f) : fs \in shorter, f \in Fragments}

(***************************************************************************)
(* The state                                                               *)
(***************************************************************************)
VARIABLES
    frags,      \* the format string, as the sequence of its fragments
    request,    \* the *http.Request
    options,    \* the opt of the middleware: its Time
    pc,         \* where the middleware closure is
    status,     \* the capture's status
    byteCount,  \* the capture's byteCount (wLen)
    calls,      \* what the handler called on the capture, and what it got
    under,      \* what the underlying http.ResponseWriter was called with
    sink,       \* the writes options.Output received
    rendered,   \* render specification: TRUE once the lines are rendered
    lineV1,     \* render specification: the line of FormatWith's logFunc
    lineV2,     \* render specification: the line of Format's logFunc
    goroutines  \* concurrent specification: the requests in flight

vars ==
    <<frags, request, options, pc, status, byteCount, calls, under, sink,
      rendered, lineV1, lineV2, goroutines>>

format == Join(frags)

\* The capture as the first implementation's responseWriter
rw == [status |-> status, byteCount |-> byteCount]

\* The capture as the second implementation's logging
logging == [status |-> status, wLen |-> byteCount]

\* logFunc(rw, r) of the middleware FormatWith(fmt) returned
LogLineV1(fmt) ==
    LET p == FormatWith(fmt)
    IN  flatten(options, p.directives, p.betweens, rw, request, Clock)

\* logFunc(l, r) of the middleware Format(fmt) returned
LogLineV2(fmt) == logFunc(Format(fmt), options, logging, request, Clock)

(***************************************************************************)
(* The capture: responseWriter (src/log.go:39-66), which logging           *)
(* (src/log.go:421-444) repeats statement for statement                    *)
(***************************************************************************)
\* A call of the handler, with what it was given back
callWriteHeader(i) ==
    [op |-> "WriteHeader", code |-> i, p |-> <<>>, n |-> 0, err |-> FALSE]

callWrite(p, n, err) ==
    [op |-> "Write", code |-> 0, p |-> p, n |-> n, err |-> err]

\* Variant: the last code set is the one recorded
lastCodeWins(s, i) == i

\* if rw.status == 0 { rw.status = i }
statusAfterWriteHeader(s, i) == IF s = 0 THEN i ELSE s

\* Variant: a write leaves an unset status unset
statusUntouched(s) == s

\* if rw.status == 0 { rw.status = http.StatusOK }
statusAfterWrite(s) == IF s = 0 THEN StatusOK ELSE s

\* Variant: the count is that of the last write
countOfLastWrite(c, n) == n

\* rw.byteCount += n
byteCountAfterWrite(c, n) == c + n

\* Variant: only a call that sets the recorded status reaches the stream
forwardWhenRecorded(u, i, seen) ==
    IF seen = i THEN Append(u, [call |-> callWriteHeader(i), seen |-> seen])
    ELSE u

\* rw.ResponseWriter.WriteHeader(i): the underlying stream gets the call.
\* seen is the status the capture holds when the stream is called.
forwardWriteHeader(u, i, seen) ==
    Append(u, [call |-> callWriteHeader(i), seen |-> seen])

\* n, err = rw.ResponseWriter.Write(p): the underlying stream gets p and
\* answers n, err
forwardWrite(u, p, n, err, seen) ==
    Append(u, [call |-> callWrite(p, n, err), seen |-> seen])

\* Variant: the line is written without its newline
Fprint(out, a) == Append(out, a)

\* fmt.Fprintln(options.Output, a): one Write of a and a newline
Fprintln(out, a) == Append(out, a \o <<"\n">>)

(***************************************************************************)
(* The middleware FormatWith returns (src/log.go:374-381) and its handler  *)
(***************************************************************************)
Init ==
    /\ frags \in {<<ApacheCommonLogFormat>>,
                  << <<"%", "s">>, <<"/">>, <<"%", "b">> >>}
    /\ request = FrankRequest
    /\ options = [Time |-> TestTime]
    /\ pc = "idle"
    /\ status = 0
    /\ byteCount = 0
    /\ calls = <<>>
    /\ under = <<>>
    /\ sink = <<>>
    /\ rendered = FALSE
    /\ lineV1 = <<>>
    /\ lineV2 = <<>>
    /\ goroutines = <<>>

\* rw := &responseWriter{ResponseWriter: w}; rw.startTime();
\* next.ServeHTTP(rw, r) is entered
ServeHTTP ==
    /\ pc = "idle"
    /\ pc' = "handler"
    /\ status' = 0
    /\ byteCount' = 0
    /\ UNCHANGED <<frags, request, options, calls, under, sink, rendered,
                   lineV1, lineV2, goroutines>>

\* The handler calls rw.WriteHeader(i)
WriteHeader(i) ==
    /\ pc = "handler"
    /\ Len(calls) < MaxCalls
    /\ status' = statusAfterWriteHeader(status, i)
    /\ under' = forwardWriteHeader(under, i, status')
    /\ calls' = Append(calls, callWriteHeader(i))
    /\ UNCHANGED <<frags, request, options, pc, byteCount, sink, rendered,
                   lineV1, lineV2, goroutines>>

\* The handler calls rw.Write(p); the underlying stream takes n bytes of p
\* and answers n, err, which Write returns.  The stream answers an error
\* exactly when it took less than p (the contract of io.Writer).
Write(p, n, err) ==
    /\ pc = "handler"
    /\ Len(calls) < MaxCalls
    /\ status' = statusAfterWrite(status)
    /\ under' = forwardWrite(under, p, n, err, status')
    /\ byteCount' = byteCountAfterWrite(byteCount, n)
    /\ calls' = Append(calls, callWrite(p, n, err))
    /\ UNCHANGED <<frags, request, options, pc, sink, rendered, lineV1,
                   lineV2, goroutines>>

\* next.ServeHTTP returns; fmt.Fprintln(options.Output, logFunc(rw, r))
Return ==
    /\ pc = "handler"
    /\ pc' = "done"
    /\ sink' = Fprintln(sink, LogLineV1(format))
    /\ UNCHANGED <<frags, request, options, status, byteCount, calls, under,
                   rendered, lineV1, lineV2, goroutines>>

\* next.ServeHTTP panics: the panic leaves the closure before Fprintln
Panic ==
    /\ pc = "handler"
    /\ pc' = "panicked"
    /\ UNCHANGED <<frags, request, options, status, byteCount, calls, under,
                   sink, rendered, lineV1, lineV2, goroutines>>

Next ==
    \/ ServeHTTP
    \/ \E i \in Codes : WriteHeader(i)
    \/ \E p \in Payloads : \E n \in 0..Len(p) : Write(p, n, n < Len(p))
    \/ Return
    \/ Panic

Spec == Init /\ [][Next]_vars

(***************************************************************************)
(* Compiling and rendering, as functions of the format, the request, the   *)
(* capture and the instant                                                 *)
(***************************************************************************)
\* The capture of the tests (status 200 and the 17 bytes of the body), and
\* that of a handler that only set 404
Captures ==
    {[status |-> 200, byteCount |-> 17], [status |-> 404, byteCount |-> 0]}

InitRender ==
    /\ frags \in FragSeqs(MaxFrags)
                   \cup {<<ApacheCommonLogFormat>>, <<ApacheCombinedLogFormat>>}
    /\ request \in Requests
    /\ options \in {[Time |-> ZeroTime], [Time |-> EarlyTime]}
    /\ \E c \in Captures : status = c.status /\ byteCount = c.byteCount
    /\ pc = "idle"
    /\ calls = <<>>
    /\ under = <<>>
    /\ sink = <<>>
    /\ rendered = FALSE
    /\ lineV1 = <<>>
    /\ lineV2 = <<>>
    /\ goroutines = <<>>

\* The format is compiled and rendered by both implementations:
\* FormatWith(format) and its logFunc(rw, r), Format(format) and its
\* logFunc(l, r)
Render ==
    /\ ~rendered
    /\ rendered' = TRUE
    /\ lineV1' = LogLineV1(format)
    /\ lineV2' = LogLineV2(format)
    /\ UNCHANGED <<frags, request, options, pc, status, byteCount, calls,
                   under, sink, goroutines>>

NextRender == Render

SpecRender == InitRender /\ [][NextRender]_vars

(***************************************************************************)
(* Properties of the capture and of the middleware (specification Spec)    *)
(***************************************************************************)
StatusFormat == <<"%", "s">>

\* The first call of the handler is a WriteHeader
FirstIsWriteHeader == Len(calls) > 0 /\ calls[1].op = "WriteHeader"

\* The first call of the handler is a Write
FirstIsWrite == Len(calls) > 0 /\ calls[1].op = "Write"

\* C1: when the handler's first call is a set-status with a non-zero code,
\* the recorded status is that code whatever set-status and write calls
\* follow, and once the handler has returned both implementations render
\* %s as the decimal text of that code.
C1_FirstStatusWins ==
    FirstIsWriteHeader =>
        /\ status = calls[1].code
        /\ pc = "done" =>
               /\ LogLineV1(StatusFormat) = CodeText[calls[1].code]
               /\ LogLineV2(StatusFormat) = CodeText[calls[1].code]

\* C1's case: two set-status calls with different codes, then the return
C1_Witness ==
    /\ pc = "done"
    /\ Len(calls) >= 2
    /\ calls[1].op = "WriteHeader"
    /\ calls[2].op = "WriteHeader"
    /\ calls[2].code # calls[1].code

\* C2: when the handler's first call is a write, the status is 200 from
\* then on, whatever set-status calls follow; and the underlying stream is
\* never handed a write while the recorded status is still 0, so the status
\* is fixed before the bytes are counted.
C2_WriteFixesStatus ==
    /\ FirstIsWrite => status = StatusOK
    /\ \A k \in 1..Len(under) :
           under[k].call.op = "Write" =>
               /\ under[k].seen # 0
               /\ FirstIsWrite => under[k].seen = StatusOK

\* C2's case: a write on an unset status, then a set-status of another code
C2_Witness ==
    /\ Len(calls) >= 2
    /\ calls[1].op = "Write"
    /\ calls[2].op = "WriteHeader"
    /\ calls[2].code # StatusOK

\* The sum of the payload lengths of the writes among cs
RECURSIVE SumLengths(_)
SumLengths(cs) ==
    IF cs = <<>> THEN 0
    ELSE (IF cs[1].op = "Write" THEN Len(cs[1].p) ELSE 0)
             + SumLengths(Tail(cs))

\* The sum of the byte counts the writes among cs returned
RECURSIVE SumReturned(_)
SumReturned(cs) ==
    IF cs = <<>> THEN 0
    ELSE (IF cs[1].op = "Write" THEN cs[1].n ELSE 0) + SumReturned(Tail(cs))

\* C3 as stated: the byte count is the sum of the payload lengths of the
\* writes.  It fails when the underlying stream takes less than a payload.
C3_ByteCountIsSumOfLengths == byteCount = SumLengths(calls)

\* C3, amended: the byte count is the sum of the byte counts the underlying
\* stream returned for the writes (each at most the payload's length, and
\* equal to it when the stream took the whole payload), whatever set-status
\* calls are interleaved; and no step decreases it.
C3_ByteCountIsSumReturned ==
    /\ byteCount = SumReturned(calls)
    /\ [][/\ byteCount' = SumReturned(calls')
          /\ byteCount' <= SumLengths(calls')
          /\ (\A k \in 1..Len(calls') :
                  calls'[k].op = "Write" => calls'[k].n = Len(calls'[k].p))
                => byteCount' = SumLengths(calls')
          /\ byteCount' >= byteCount]_vars

\* C3's case: two writes that count, around a set-status
C3_Witness ==
    /\ Len(calls) = 3
    /\ calls[1].op = "Write" /\ calls[1].n > 0
    /\ calls[2].op = "WriteHeader"
    /\ calls[3].op = "Write" /\ calls[3].n > 0

C5_CallsForwarded ==
    /\ Len(under) = Len(calls)
    /\ \A k \in 1..Len(calls) : under[k].call = calls[k]

\* C5's case: a set-status that changes nothing is forwarded, and a write
\* the stream cut short is reported as such
C5_Witness ==
    /\ Len(calls) = 3
    /\ calls[1].op = "WriteHeader"
    /\ calls[2].op = "WriteHeader" /\ calls[2].code # status
    /\ calls[3].op = "Write" /\ calls[3].n < Len(calls[3].p) /\ calls[3].err
    /\ Len(under) = 3

(***************************************************************************)
(* Properties of compiling and rendering (specification SpecRender)        *)
(***************************************************************************)
\* What the lines of the inputs are expected to show, written out
ExpectedHost == <<"1", "2", "7", ".", "0", ".", "0", ".", "1">>

ExpectedUser ==
    IF request = FrankRequest THEN <<"F", "r", "a", "n", "k">> ELSE <<"-">>

ExpectedStamp ==
    IF options.Time = ZeroTime
    THEN <<"[", "0", "3", "/", "0", "2", "/", "2", "0", "1", "3", ":", "0",
           "7", ":", "5", "4", ":", "0", "0", " ", "+", "0", "0", "0", "0",
           "]">>
    ELSE <<"[", "0", "1", "/", "0", "1", "/", "0", "0", "0", "5", ":", "1",
           "2", ":", "0", "0", ":", "0", "7", " ", "+", "0", "0", "0", "0",
           "]">>

ExpectedRequestLine ==
    <<"G", "E", "T", " ", "/", "t", "e", "s", "t", "i", "n", "g", " ", "H",
      "T", "T", "P", "/", "1", ".", "1">>

ExpectedBytes == IF byteCount = 0 THEN <<"0">> ELSE <<"1", "7">>

ExpectedReferer ==
    IF request = CombinedRequest THEN RefererText ELSE <<>>

ExpectedUserAgent ==
    IF request = CombinedRequest THEN UserAgentText ELSE <<>>

ExpectedCommonLine ==
    Join(<<ExpectedHost, <<" ">>, <<"-">>, <<" ">>, ExpectedUser, <<" ">>,
           ExpectedStamp, <<" ">>, <<"\"">>, ExpectedRequestLine, <<"\"">>,
           <<" ">>, CodeText[status], <<" ">>, ExpectedBytes>>)

ExpectedCombinedLine ==
    Join(<<ExpectedCommonLine, <<" ">>, <<"\"">>, ExpectedReferer, <<"\"">>,
           <<" ">>, <<"\"">>, ExpectedUserAgent, <<"\"">> >>)

\* C6: both implementations render the Common preset as host, "-", user,
\* bracketed timestamp, quoted request line, status and byte count,
\* separated by single spaces, and the Combined preset as that line
\* followed by the quoted Referer and the quoted User-agent header, each
\* after a space.
C6_PresetLines ==
    rendered =>
        /\ frags = <<ApacheCommonLogFormat>> =>
               lineV1 = ExpectedCommonLine /\ lineV2 = ExpectedCommonLine
        /\ frags = <<ApacheCombinedLogFormat>> =>
               lineV1 = ExpectedCombinedLine /\ lineV2 = ExpectedCombinedLine

\* C6's case: the Combined preset rendered for the request of the tests
C6_Witness ==
    /\ rendered
    /\ frags = <<ApacheCombinedLogFormat>>
    /\ request = CombinedRequest
    /\ options.Time = ZeroTime
    /\ status = 200

\* The fragments of the status kind, of the size kind, and the literal
StatusKind == {<<"%", "s">>, <<"%", ">", "s">>}

SizeKind == {<<"%", "b">>}

Literals == {<<"/">>}

\* What a fragment is expected to render as
ExpectedText(f) ==
    CASE f \in StatusKind -> CodeText[status]
      [] f \in SizeKind -> ExpectedBytes
      [] f = <<"%", "%">> -> <<"%">>
      [] f = <<"%", "W">> -> <<>>
      [] OTHER -> f

ExpectedLine(fs) == Join([k \in 1..Len(fs) |-> ExpectedText(fs[k])])

FragsIn(S) == \A k \in 1..Len(frags) : frags[k] \in S

\* C7 as stated: in a format made of status slots (%s, %>s), size slots
\* and literals, every status slot renders the text of the status and every
\* size slot the text of the byte count, wherever it stands.
C7_SameKindSameValue ==
    (rendered /\ FragsIn(StatusKind \cup SizeKind \cup Literals)) =>
        lineV1 = ExpectedLine(frags) /\ lineV2 = ExpectedLine(frags)

\* C8 as stated: in a format made of %%, size slots and literals, each %%
\* renders as one "%" at its position.
C8_PercentEscape ==
    (rendered /\ FragsIn({<<"%", "%">>} \cup SizeKind \cup Literals)) =>
        lineV1 = ExpectedLine(frags) /\ lineV2 = ExpectedLine(frags)

\* The fragments of fs other than the directive of the unknown letter W
RECURSIVE WithoutUnknown(_)
WithoutUnknown(fs) ==
    IF fs = <<>> THEN <<>>
    ELSE (IF fs[1] = <<"%", "W">> THEN <<>> ELSE <<fs[1]>>)
             \o WithoutUnknown(Tail(fs))

\* C9 as stated: a format of status slots, size slots, literals and
\* directives of the unknown letter W renders as the format without those
\* directives does.
C9_UnknownDirectiveDropped ==
    (rendered /\ FragsIn(StatusKind \cup SizeKind \cup Literals
                             \cup {<<"%", "W">>})) =>
        /\ lineV1 = LogLineV1(Join(WithoutUnknown(frags)))
        /\ lineV2 = LogLineV2(Join(WithoutUnknown(frags)))

\* C10 as stated: compiling and rendering returns a line, whatever the
\* format, the request, the capture and the instant.
C10_NeverFaults == rendered => lineV1 # Fault /\ lineV2 # Fault

(***************************************************************************)
(* The user directive %u (specification SpecUser)                          *)
(***************************************************************************)
\* The request of the tests with the Authorization header v
AuthRequest(v) ==
    [TestRequest EXCEPT !.Header =
        << << <<"A", "u", "t", "h", "o", "r", "i", "z", "a", "t", "i", "o",
                "n">>, v >> >>]

\* "Basic RnJhbms=": the credential decodes to "Frank", without a colon
NoColonRequest ==
    AuthRequest(<<"B", "a", "s", "i", "c", " ", "R", "n", "J", "h", "b", "m",
                  "s", "=">>)

\* "Basic OnB3": the credential decodes to ":pw"
EmptyUserRequest ==
    AuthRequest(<<"B", "a", "s", "i", "c", " ", "O", "n", "B", "3">>)

\* "Basic YTpiOmM=": the credential decodes to "a:b:c"
TwoColonRequest ==
    AuthRequest(<<"B", "a", "s", "i", "c", " ", "Y", "T", "p", "i", "O", "m",
                  "M", "=">>)

\* "Basic Rn": the credential is not valid base64
BadBase64Request == AuthRequest(<<"B", "a", "s", "i", "c", " ", "R", "n">>)

\* "Basic": no credential part
NoCredentialRequest == AuthRequest(<<"B", "a", "s", "i", "c">>)

\* "Bearer RnJhbms6PG5vbmU+": not a Basic header; the token happens to be
\* the base64 text of "Frank:<none>"
BearerRequest ==
    AuthRequest(<<"B", "e", "a", "r", "e", "r", " ", "R", "n", "J", "h", "b",
                  "m", "s", "6", "P", "G", "5", "v", "b", "m", "U", "+">>)

UserRequests ==
    {TestRequest, FrankRequest, NoColonRequest, EmptyUserRequest,
     TwoColonRequest, BadBase64Request, NoCredentialRequest, BearerRequest}

UserFormats ==
    { << <<"%", "u">> >>,
      << <<"%", "u">>, <<"/">>, <<"%", "s">> >>,
      << <<"%", "s">>, <<"/">>, <<"%", "u">> >>,
      << <<"%", "u">>, <<"/">>, <<"%", "u">> >> }

InitUser ==
    /\ frags \in UserFormats
    /\ request \in UserRequests
    /\ options \in {[Time |-> ZeroTime], [Time |-> TestTime]}
    /\ \E c \in Captures : status = c.status /\ byteCount = c.byteCount
    /\ pc = "idle"
    /\ calls = <<>>
    /\ under = <<>>
    /\ sink = <<>>
    /\ rendered = FALSE
    /\ lineV1 = <<>>
    /\ lineV2 = <<>>
    /\ goroutines = <<>>

SpecUser == InitUser /\ [][NextRender]_vars

\* What C11 says %u renders for the request
ClaimedUser ==
    CASE request = FrankRequest -> <<"F", "r", "a", "n", "k">>
      [] request = EmptyUserRequest -> <<>>
      [] request = TwoColonRequest -> <<"a">>
      [] OTHER -> <<"-">>

ClaimedUserText(f) ==
    CASE f = <<"%", "u">> -> ClaimedUser
      [] f \in StatusKind -> CodeText[status]
      [] OTHER -> f

\* C11 as stated: %u renders the text before the first colon of the decoded
\* credential of a Basic Authorization header, and "-" when the header is
\* absent, is not a Basic header with a credential, is not valid base64 or
\* decodes to text without a colon.
C11_UserOfBasicHeader ==
    rendered =>
        LET want == Join([k \in 1..Len(frags) |-> ClaimedUserText(frags[k])])
        IN  lineV1 = want /\ lineV2 = want

(***************************************************************************)
(* The time directive %t and its subformat (specification SpecTime)        *)
(***************************************************************************)
\* The longest run of tokens between "%{" and "}t"
MaxTokens == 2

RECURSIVE SeqsOver(_, _)
\* The sequences of at most n elements of S
SeqsOver(S, n) ==
    IF n = 0 THEN {<<>>}
    ELSE LET shorter == SeqsOver(S, n - 1)
         IN  shorter \cup {Append(q, x) : q \in shorter, x \in S}

\* Tokens of a strftime subformat: computed (%w %u %s %j %g), direct (%H),
\* listed as unsupported (%c), absent from the table (%i), %% and a literal
TimeTokens ==
    { <<"%", "w">>, <<"%", "u">>, <<"%", "s">>, <<"%", "j">>, <<"%", "g">>,
      <<"%", "H">>, <<"%", "c">>, <<"%", "i">>, <<"%", "%">>, <<":">> }

\* The format %{...}t around a run of tokens
TimeSubformat(ts) == << <<"%", "{">> >> \o ts \o << <<"}", "t">> >>

TimeFormats ==
    { << <<"%", "t">> >> }
        \cup {TimeSubformat(ts) : ts \in SeqsOver(TimeTokens, MaxTokens) \ {<<>>}}

\* The instant of the tests at 07:54 instead of 19:54 (a Sunday)
MorningTime == [TestTime EXCEPT !.hour = 7]

\* The day after the instant of the tests (a Monday)
MondayTime == [TestTime EXCEPT !.day = 4]

Instants == {TestTime, MorningTime, MondayTime, EarlyTime}

InitTime ==
    /\ frags \in TimeFormats
    /\ request = TestRequest
    /\ options \in {[Time |-> t] : t \in Instants}
    /\ status = StatusOK
    /\ byteCount = 17
    /\ pc = "idle"
    /\ calls = <<>>
    /\ under = <<>>
    /\ sink = <<>>
    /\ rendered = FALSE
    /\ lineV1 = <<>>
    /\ lineV2 = <<>>
    /\ goroutines = <<>>

SpecTime == InitTime /\ [][NextRender]_vars

\* The tokens between "%{" and "}t" of the format
Tokens == SubSeq(frags, 2, Len(frags) - 1)

IsSubformat == Len(frags) >= 3 /\ frags[1] = <<"%", "{">>

\* [dd/MM/yyyy:HH:mm:ss +hhmm] with the hour of the 24-hour clock
ClaimedStamp(t) ==
    <<"[">> \o PadLeft(t.day, 2, "0") \o <<"/">> \o PadLeft(t.month, 2, "0")
        \o <<"/">> \o PadLeft(t.year, 4, "0") \o <<":">>
        \o PadLeft(t.hour, 2, "0") \o <<":">> \o PadLeft(t.min, 2, "0")
        \o <<":">> \o PadLeft(t.sec, 2, "0") \o <<" ">> \o ZoneSign(t)
        \o PadLeft(ZoneAbs(t) \div 60, 2, "0")
        \o PadLeft(ZoneAbs(t) % 60, 2, "0") \o <<"]">>

\* C12 as stated: %t without a key renders [dd/MM/yyyy:HH:mm:ss +hhmm] with
\* the hour of the instant on the 24-hour clock (00 to 23).
C12_DefaultStampHas24HourClock ==
    (rendered /\ frags = << <<"%", "t">> >>) =>
        /\ lineV1 = ClaimedStamp(options.Time)
        /\ lineV2 = ClaimedStamp(options.Time)

\* The ISO weekday number of an instant: Monday = 1 through Sunday = 7
ISOWeekdayText(t) == ItoaNat(IF Weekday(t) = 0 THEN 7 ELSE Weekday(t))

\* What a weekday token renders: %u the ISO weekday number, %w the weekday
\* number that counts from Sunday = 0 to Saturday = 6
WeekdayTokenText(t, tok) ==
    CASE tok = <<"%", "u">> -> ISOWeekdayText(t)
      [] tok = <<"%", "w">> -> ItoaNat(Weekday(t))
      [] OTHER -> tok

WeekdayTokens == {<<"%", "u">>, <<"%", "w">>, <<":">>}

\* C13 as stated: in a time subformat %w renders the ISO weekday number of
\* the instant, Sunday as 7, never 0.
C13_PercentWIsISOWeekday ==
    (rendered /\ frags = TimeSubformat(<< <<"%", "w">> >>)) =>
        /\ lineV1 = ISOWeekdayText(options.Time)
        /\ lineV2 = ISOWeekdayText(options.Time)

\* C13, amended: in a time subformat %u renders the ISO weekday number
\* (Monday = 1 through Sunday = 7, never 0) and %w renders the weekday number
\* counted from Sunday = 0 through Saturday = 6, in both implementations.
C13_WeekdayNumbers ==
    (rendered /\ IsSubformat /\ \A k \in 1..Len(Tokens) : Tokens[k] \in WeekdayTokens) =>
        LET want == Join([k \in 1..Len(Tokens) |->
                             WeekdayTokenText(options.Time, Tokens[k])])
        IN  lineV1 = want /\ lineV2 = want

\* %w and %u have been rendered for a Sunday: "0" then "7"
C13_Witness ==
    /\ rendered
    /\ frags = TimeSubformat(<< <<"%", "w">>, <<"%", "u">> >>)
    /\ Weekday(options.Time) = 0
    /\ lineV1 = <<"0", "7">>
    /\ lineV2 = <<"0", "7">>

\* What C14 and the table say a token without a number renders: "?" for a
\* token outside the supported set, the 24-hour hour for %H
PlainTokens == {<<"%", "c">>, <<"%", "i">>, <<"%", "H">>, <<":">>}

PlainTokenText(t, tok) ==
    CASE tok \in {<<"%", "c">>, <<"%", "i">>} -> <<"?">>
      [] tok = <<"%", "H">> -> PadLeft(t.hour, 2, "0")
      [] OTHER -> tok

\* C14 as stated: a time token outside the supported set, listed as
\* unsupported (%c) or absent from the table (%i), renders the single
\* character "?", and what follows it is translated as usual.
C14_UnsupportedTokenIsQuestionMark ==
    (rendered /\ IsSubformat /\ \A k \in 1..Len(Tokens) : Tokens[k] \in PlainTokens) =>
        LET want == Join([k \in 1..Len(Tokens) |->
                             PlainTokenText(options.Time, Tokens[k])])
        IN  lineV1 = want /\ lineV2 = want

ComputedTokens ==
    {<<"%", "w">>, <<"%", "u">>, <<"%", "s">>, <<"%", "j">>, <<"%", "g">>}

\* The value of a token at the instant t: the number of a computed token as
\* a decimal integer (%g: the two-digit year of the ISO week), the 24-hour
\* hour for %H, a literal as itself
TokenValueText(t, tok) ==
    CASE tok = <<"%", "w">> -> ItoaNat(Weekday(t))
      [] tok = <<"%", "u">> -> ISOWeekdayText(t)
      [] tok = <<"%", "s">> ->
             (IF UnixParts(t).neg THEN <<"-">> ELSE <<>>) \o UnixParts(t).text
      [] tok = <<"%", "j">> -> ItoaNat(YearDay(t))
      [] tok = <<"%", "g">> -> PadLeft(ISOWeek(t).year % 100, 2, "0")
      [] tok = <<"%", "H">> -> PadLeft(t.hour, 2, "0")
      [] OTHER -> tok

\* C15 as stated: in a subformat of computed tokens mixed with direct tokens
\* and literals, the i-th number of the output is the value of the i-th
\* computed token, in the order of the subformat; %s renders the Unix epoch
\* seconds of the instant.
C15_ComputedTokensInOrder ==
    (rendered /\ IsSubformat
        /\ \A k \in 1..Len(Tokens) :
               Tokens[k] \in ComputedTokens \cup {<<"%", "H">>, <<":">>}) =>
        LET want == Join([k \in 1..Len(Tokens) |->
                             TokenValueText(options.Time, Tokens[k])])
        IN  lineV1 = want /\ lineV2 = want

\* C19 as stated: within a time subformat %% renders exactly one "%", with or
\* without computed tokens in the same subformat.
C19_PercentEscapeInSubformat ==
    (rendered /\ IsSubformat
        /\ (\E j \in 1..Len(Tokens) : Tokens[j] = <<"%", "%">>)
        /\ \A k \in 1..Len(Tokens) :
               Tokens[k] \in {<<"%", "%">>, <<"%", "s">>, <<"%", "j">>,
                              <<"%", "H">>, <<":">>}) =>
        LET want == Join([k \in 1..Len(Tokens) |->
                             IF Tokens[k] = <<"%", "%">> THEN <<"%">>
                             ELSE TokenValueText(options.Time, Tokens[k])])
        IN  lineV1 = want /\ lineV2 = want

(***************************************************************************)
(* The scanner: directives, keys and plain characters (specification       *)
(* SpecScan)                                                               *)
(***************************************************************************)
\* A keyless %t, a keyed header directive, a keyed time directive, three
\* directives of one letter, a letter, the characters { } > and a separator
ScanFragments ==
    { <<"%", "t">>, <<"%", "{", "X", "}", "i">>,
      <<"%", "{", "%", "H", "}", "t">>,
      <<"%", "h">>, <<"%", "s">>, <<"%", "b">>,
      <<"x">>, <<"{">>, <<"}">>, <<">">>, <<"/">> }

\* The request of the tests with the header "X: v"
ScanRequest == [TestRequest EXCEPT !.Header = << << <<"X">>, <<"v">> >> >>]

InitScan ==
    /\ frags \in SeqsOver(ScanFragments, MaxFrags) \ {<<>>}
    /\ request = ScanRequest
    /\ options = [Time |-> TestTime]
    /\ status = StatusOK
    /\ byteCount = 17
    /\ pc = "idle"
    /\ calls = <<>>
    /\ under = <<>>
    /\ sink = <<>>
    /\ rendered = FALSE
    /\ lineV1 = <<>>
    /\ lineV2 = <<>>
    /\ goroutines = <<>>

SpecScan == InitScan /\ [][NextRender]_vars

\* What the directives of the scanner formats stand for at the instant of
\* the tests, for the request with "X: v", status 200 and 17 bytes
ScanText(f) ==
    CASE f = <<"%", "t">> ->
             <<"[", "0", "3", "/", "0", "2", "/", "2", "0", "1", "3", ":",
               "0", "7", ":", "5", "4", ":", "0", "0", " ", "+", "0", "0",
               "0", "0", "]">>
      [] f = <<"%", "{", "X", "}", "i">> -> <<"v">>
      [] f = <<"%", "{", "%", "H", "}", "t">> -> <<"1", "9">>
      [] f = <<"%", "h">> -> Loopback
      [] f = <<"%", "s">> -> <<"2", "0", "0">>
      [] f = <<"%", "b">> -> <<"1", "7">>
      [] OTHER -> f

ScanLine == Join([k \in 1..Len(frags) |-> ScanText(frags[k])])

IsDirectiveFrag(f) == Len(f) >= 2 /\ f[1] = "%"

\* All fragments of the format are in S
FragsWithin(S) == \A k \in 1..Len(frags) : frags[k] \in S

\* No directive of the format is directly followed by another fragment
\* than the separator "/"
Separated ==
    \A k \in 1..(Len(frags) - 1) :
        IsDirectiveFrag(frags[k]) => frags[k + 1] = <<"/">>

\* C16 as stated: a keyless %t renders the default bracketed pattern also
\* when keyed directives (%{X}i, %{%H}t) occur earlier in the format; a key
\* applies only to its own directive.
C16_KeyAppliesToOwnDirective ==
    (rendered /\ Separated
        /\ FragsWithin({<<"%", "t">>, <<"%", "{", "X", "}", "i">>,
                        <<"%", "{", "%", "H", "}", "t">>, <<"/">>})) =>
        lineV1 = ScanLine /\ lineV2 = ScanLine

\* C17 as stated: a directive ends at its first letter outside an enclosure;
\* what follows that letter, a further letter or a directly adjacent
\* directive (%h%s, %bx), is parsed separately, and the directive is still
\* rendered with its value.
C17_DirectiveEndsAtItsLetter ==
    (rendered
        /\ FragsWithin({<<"%", "h">>, <<"%", "s">>, <<"%", "b">>, <<"x">>,
                        <<"/">>})) =>
        lineV1 = ScanLine /\ lineV2 = ScanLine

\* C18 as stated: every character outside a directive appears verbatim and
\* in position, also { } and > used as plain text before or after
\* directives; a format without % renders as itself.
C18_PlainCharactersVerbatim ==
    (rendered /\ Separated
        /\ FragsWithin({<<"%", "s">>, <<"%", "b">>, <<"{">>, <<"}">>,
                        <<">">>, <<"/">>})) =>
        lineV1 = ScanLine /\ lineV2 = ScanLine

(***************************************************************************)
(* Several requests through one middleware (specification SpecConc).       *)
(* net/http serves each request on its own goroutine; every call of the    *)
(* closure (src/log.go:375-380) makes its own capture and its logFunc its   *)
(* own line (src/log.go:265), while the compiled format and the options    *)
(* are shared.                                                             *)
(***************************************************************************)
\* The calls a handler makes in the concurrent specification, at most
MaxConcCalls == 1

\* The requests in flight: goroutine g serves ConcRequests[g]
ConcRequests == <<FrankRequest, CombinedRequest>>

ConcFormats ==
    { << <<"%", "u">>, <<"/">>, <<"%", "s">>, <<"/">>, <<"%", "b">> >>,
      << <<"%", "h">>, <<" ">>, <<"%", ">", "s">>, <<" ">>, <<"%", "b">> >> }

\* Variant: every goroutine uses the capture of the first
sharedCapture(g) == 1

\* rw := &responseWriter{ResponseWriter: w}: the capture of goroutine g is
\* the one its own call of the closure made
rwOf(g) == g

InitConc ==
    /\ frags \in ConcFormats
    /\ request = TestRequest
    /\ options = [Time |-> TestTime]
    /\ pc = "idle"
    /\ status = 0
    /\ byteCount = 0
    /\ calls = <<>>
    /\ under = <<>>
    /\ sink = <<>>
    /\ rendered = FALSE
    /\ lineV1 = <<>>
    /\ lineV2 = <<>>
    /\ goroutines =
           [g \in DOMAIN ConcRequests |->
               [pc |-> "idle", status |-> 0, byteCount |-> 0, calls |-> <<>>,
                under |-> <<>>, lineV1 |-> <<>>, lineV2 |-> <<>>]]

\* Goroutine g enters the closure: a fresh capture, then next.ServeHTTP
ConcServeHTTP(g) ==
    /\ goroutines[g].pc = "idle"
    /\ goroutines' = [goroutines EXCEPT ![g].pc = "handler",
                                        ![rwOf(g)].status = 0,
                                        ![rwOf(g)].byteCount = 0]
    /\ UNCHANGED <<frags, request, options, pc, status, byteCount, calls,
                   under, sink, rendered, lineV1, lineV2>>

\* The handler of goroutine g calls WriteHeader(i) on its capture
ConcWriteHeader(g, i) ==
    /\ goroutines[g].pc = "handler"
    /\ Len(goroutines[g].calls) < MaxConcCalls
    /\ LET s == statusAfterWriteHeader(goroutines[rwOf(g)].status, i)
       IN  goroutines' =
               [goroutines EXCEPT
                   ![rwOf(g)].status = s,
                   ![g].under = forwardWriteHeader(@, i, s),
                   ![g].calls = Append(@, callWriteHeader(i))]
    /\ UNCHANGED <<frags, request, options, pc, status, byteCount, calls,
                   under, sink, rendered, lineV1, lineV2>>

\* The handler of goroutine g calls Write(p) on its capture; the underlying
\* stream takes all of p
ConcWrite(g, p) ==
    /\ goroutines[g].pc = "handler"
    /\ Len(goroutines[g].calls) < MaxConcCalls
    /\ LET s == statusAfterWrite(goroutines[rwOf(g)].status)
       IN  goroutines' =
               [goroutines EXCEPT
                   ![rwOf(g)].status = s,
                   ![rwOf(g)].byteCount = byteCountAfterWrite(@, Len(p)),
                   ![g].under = forwardWrite(@, p, Len(p), FALSE, s),
                   ![g].calls = Append(@, callWrite(p, Len(p), FALSE))]
    /\ UNCHANGED <<frags, request, options, pc, status, byteCount, calls,
                   under, sink, rendered, lineV1, lineV2>>

\* next.ServeHTTP returned on goroutine g: logFunc(rw, r) builds the line
\* from the shared program and options, the goroutine's capture and request
ConcRender(g) ==
    /\ goroutines[g].pc = "handler"
    /\ LET c  == goroutines[rwOf(g)]
           p1 == FormatWith(format)
       IN  goroutines' =
               [goroutines EXCEPT
                   ![g].pc = "rendered",
                   ![g].lineV1 =
                       flatten(options, p1.directives, p1.betweens,
                               [status |-> c.status,
                                byteCount |-> c.byteCount],
                               ConcRequests[g], Clock),
                   ![g].lineV2 =
                       logFunc(Format(format), options,
                               [status |-> c.status, wLen |-> c.byteCount],
                               ConcRequests[g], Clock)]
    /\ UNCHANGED <<frags, request, options, pc, status, byteCount, calls,
                   under, sink, rendered, lineV1, lineV2>>

\* fmt.Fprintln(options.Output, line) on goroutine g
ConcPrint(g) ==
    /\ goroutines[g].pc = "rendered"
    /\ goroutines' = [goroutines EXCEPT ![g].pc = "done"]
    /\ sink' = Fprintln(sink, goroutines[g].lineV1)
    /\ UNCHANGED <<frags, request, options, pc, status, byteCount, calls,
                   under, rendered, lineV1, lineV2>>

NextConc ==
    \E g \in DOMAIN ConcRequests :
        \/ ConcServeHTTP(g)
        \/ \E i \in Codes : ConcWriteHeader(g, i)
        \/ \E p \in Payloads : ConcWrite(g, p)
        \/ ConcRender(g)
        \/ ConcPrint(g)

SpecConc == InitConc /\ [][NextConc]_vars

\* The capture of a request that runs alone and makes the calls cs: the
\* status its first call fixes, the bytes its writes returned
AloneCapture(cs) ==
    [status |-> IF cs = <<>> THEN 0
                ELSE IF cs[1].op = "WriteHeader" THEN cs[1].code
                ELSE StatusOK,
     byteCount |-> SumReturned(cs)]

\* The line of the first implementation for request g running alone
AloneLineV1(g) ==
    LET c == AloneCapture(goroutines[g].calls)
        p == FormatWith(format)
    IN  flatten(options, p.directives, p.betweens, c, ConcRequests[g], Clock)

\* The line of the second implementation for request g running alone
AloneLineV2(g) ==
    LET c == AloneCapture(goroutines[g].calls)
    IN  logFunc(Format(format), options,
                [status |-> c.status, wLen |-> c.byteCount],
                ConcRequests[g], Clock)

\* The line of every request that has rendered is the line that request
\* produces alone, and the line of every request that is done is in the output
LinesAreIsolated ==
    \A g \in DOMAIN ConcRequests :
        /\ goroutines[g].pc \in {"rendered", "done"} =>
               /\ goroutines[g].lineV1 = AloneLineV1(g)
               /\ goroutines[g].lineV2 = AloneLineV2(g)
        /\ goroutines[g].pc = "done" =>
               \E k \in 1..Len(sink) : sink[k] = AloneLineV1(g) \o <<"\n">>

\* C20: with several requests in flight through one middleware, the format
\* (and so the program compiled from it) and the options are never written
\* after construction, and in every interleaving the line of each request
\* is the line that request produces alone, from its own calls, its own
\* request and the clock; what reaches the output is that line.
C20_RequestsAreIsolated ==
    /\ []LinesAreIsolated
    /\ [][frags' = frags /\ options' = options]_vars

\* C20's case: both requests are through, their handlers made different
\* calls, and the second request's line reached the output first
C20_Witness ==
    /\ goroutines[1].pc = "done"
    /\ goroutines[2].pc = "done"
    /\ Len(goroutines[1].calls) = 1
    /\ goroutines[1].calls[1].op = "WriteHeader"
    /\ goroutines[1].calls[1].code = 404
    /\ Len(goroutines[2].calls) = 1
    /\ goroutines[2].calls[1].op = "Write"
    /\ goroutines[2].calls[1].n = MaxWriteLen
    /\ goroutines[1].lineV1 # goroutines[2].lineV1
    /\ Len(sink) = 2
    /\ sink[1] = goroutines[2].lineV1 \o <<"\n">>

====
